---- MODULE Spec2Model ----
(***************************************************************************)
(* Model of the IP-info retrieval pipeline of src/main.py: the file-backed *)
(* cache store (load_cache, save_cache), the geolocation lookup            *)
(* (get_ip_info: cache read, primary provider, fallback provider on HTTP   *)
(* 429, cache write) and the address resolver (get_ip_address).            *)
(*                                                                         *)
(* Python values are tagged tuples, so that None, "", 0, {} and the other  *)
(* values the code's truth tests tell apart stay distinct:                 *)
(*   <<"None">>  <<"str", s>>  <<"num", n>>  <<"bool", b>>  <<"dict", f>>  *)
(* A JSON document is the tree json.dumps writes and json.loads reads:     *)
(*   <<"null">>  <<"string", s>>  <<"number", n>>  <<"true">> <<"false">>  *)
(*   <<"object", f>>                                                       *)
(***************************************************************************)
EXTENDS Integers, Sequences, FiniteSets, TLC

VARIABLES
    CACHE_FILE,  \* the cache file: NoFile, or the JSON document it holds
    now,         \* time.time(), in seconds
    last,        \* the last cache-store or geo-lookup call: arguments, replies, result
    res,         \* the last get_ip_address call: arguments, replies, result
    fbdata,      \* a secondary-provider response body (fallback mapping)
    mapped,      \* the GeoRecord the fallback mapping made of fbdata
    web,         \* the last call into the web module: arguments, replies, result
    race         \* processes running save_cache side by side, and the store they found

vars == <<CACHE_FILE, now, last, res, fbdata, mapped, web, race>>

----------------------------------------------------------------------------
(* Bounds *)

\* the clock reads 0 or CACHE_TTL, plus at most MaxSkew seconds
MaxSkew == 1
\* an echo endpoint's response text has at most MaxLen characters
MaxLen == 3

----------------------------------------------------------------------------
(* Python values *)

PyNone == <<"None">>
PyStr(s) == <<"str", s>>
PyNum(n) == <<"num", n>>
PyBool(b) == <<"bool", b>>
PyDict(f) == <<"dict", f>>
EmptyDict == PyDict(<<>>)

\* Python's truth test, as `if x`, `not x` and `x or y` apply it
Truthy(v) ==
    CASE v[1] = "None" -> FALSE
      [] v[1] = "str"  -> v[2] # ""
      [] v[1] = "num"  -> v[2] # 0
      [] v[1] = "bool" -> v[2]
      [] v[1] = "dict" -> DOMAIN v[2] # {}

\* d.get(k): the value under k, None when d has no key k
Get(d, k) == IF k \in DOMAIN d[2] THEN d[2][k] ELSE PyNone

\* x or y
Or(x, y) == IF Truthy(x) THEN x ELSE y

\* d[k] = v
SetItem(d, k, v) == PyDict([j \in DOMAIN d[2] \cup {k} |-> IF j = k THEN v ELSE d[2][j]])

----------------------------------------------------------------------------
(* json.dumps and json.loads *)

\* mutant: numbers are written as strings
RECURSIVE json_dumps_str(_)
json_dumps_str(v) ==
    CASE v[1] = "None" -> <<"null">>
      [] v[1] = "str"  -> <<"string", v[2]>>
      [] v[1] = "num"  -> <<"string", v[2]>>
      [] v[1] = "bool" -> IF v[2] THEN <<"true">> ELSE <<"false">>
      [] v[1] = "dict" -> <<"object", [k \in DOMAIN v[2] |-> json_dumps_str(v[2][k])]>>

RECURSIVE json_dumps(_)
json_dumps(v) ==
    CASE v[1] = "None" -> <<"null">>
      [] v[1] = "str"  -> <<"string", v[2]>>
      [] v[1] = "num"  -> <<"number", v[2]>>
      [] v[1] = "bool" -> IF v[2] THEN <<"true">> ELSE <<"false">>
      [] v[1] = "dict" -> <<"object", [k \in DOMAIN v[2] |-> json_dumps(v[2][k])]>>

RECURSIVE json_loads(_)
json_loads(j) ==
    CASE j[1] = "null"   -> PyNone
      [] j[1] = "string" -> PyStr(j[2])
      [] j[1] = "number" -> PyNum(j[2])
      [] j[1] = "true"   -> PyBool(TRUE)
      [] j[1] = "false"  -> PyBool(FALSE)
      [] j[1] = "object" -> PyDict([k \in DOMAIN j[2] |-> json_loads(j[2][k])])

----------------------------------------------------------------------------
(* Cache store *)

CACHE_TTL == 24 * 3600

NoFile == <<"no file">>

\* mutant: an entry exactly as old as the TTL has expired
Expired_at_ttl(t, entry) == t - entry[2]["timestamp"][2] >= CACHE_TTL

\* time.time() - entry["timestamp"] > CACHE_TTL
Expired(t, entry) == t - entry[2]["timestamp"][2] > CACHE_TTL

\* load_cache(ip_address) at time t on cache file `file`
load_cache(file, t, ip_address) ==
    IF file = NoFile
    THEN PyNone
    ELSE LET data == json_loads(file)
             entry == Get(data, ip_address)
         IN  IF ~Truthy(entry) \/ Expired(t, entry)
             THEN PyNone
             ELSE entry[2]["info"]

\* mutant: data.setdefault(ip_address, ...), an entry already there is kept
save_cache_setdefault(file, t, ip_address, info) ==
    LET data0 == IF file # NoFile THEN json_loads(file) ELSE EmptyDict
        data1 == IF ip_address \in DOMAIN data0[2]
                 THEN data0
                 ELSE SetItem(data0, ip_address,
                              PyDict([timestamp |-> PyNum(t), info |-> info]))
    IN  json_dumps(data1)

\* mutant: the file is not read first, the new entry is all that is written
save_cache_alone(file, t, ip_address, info) ==
    json_dumps(SetItem(EmptyDict, ip_address,
                       PyDict([timestamp |-> PyNum(t), info |-> info])))

\* save_cache(ip_address, info) at time t on cache file `file`: the file it leaves
save_cache(file, t, ip_address, info) ==
    LET data0 == IF file # NoFile THEN json_loads(file) ELSE EmptyDict
        data1 == SetItem(data0, ip_address,
                         PyDict([timestamp |-> PyNum(t), info |-> info]))
    IN  json_dumps(data1)

----------------------------------------------------------------------------
(* HTTP: what requests.get gives back *)

\* the reply to one requests.get: a response, or a requests.RequestException
\* raised by the transport (DNS, connection, TLS, timeout)
Response(status, body) == [kind |-> "response", status_code |-> status, body |-> body]
ConnectionError == [kind |-> "exception", exc |-> <<"ConnectionError">>]

\* resp.raise_for_status() raises requests.HTTPError on a 4xx or 5xx status
RaisesHTTPError(resp) == resp.status_code >= 400 /\ resp.status_code < 600

\* a requests.get call raises a RequestException: the transport failed, or
\* raise_for_status() found an error status
RaisesRequestException(reply) == reply.kind = "exception" \/ RaisesHTTPError(reply)

\* what a function hands its caller
Return(v) == [kind |-> "return", value |-> v]
\* raise typer.Exit(code)
Exit(code) == [kind |-> "raise", exc |-> "typer.Exit", code |-> code]

\* typer.echo(text + detail, err=True)
Echo(text, detail) == <<text, detail>>

\* the exception e as "{e}" prints it
ErrorOf(reply) ==
    IF reply.kind = "exception" THEN reply.exc ELSE <<"HTTPError", reply.status_code>>

----------------------------------------------------------------------------
(* Geo lookup *)

PrimaryUrl(ip_address) == <<"https://ipapi.co/", ip_address, "/json/">>
FallbackUrl(ip_address) == <<"https://geolocation-db.com/json/", ip_address, "&position=true">>

\* mutant: org is read from the body's org field
fallback_data_org(fbd) ==
    PyDict([country_name |-> Or(Or(Get(fbd, "country_name"), Get(fbd, "country")), PyStr("N/A")),
            city         |-> Or(Get(fbd, "city"), PyStr("N/A")),
            latitude     |-> Or(Get(fbd, "latitude"), PyNum(0)),
            longitude    |-> Or(Get(fbd, "longitude"), PyNum(0)),
            org          |-> Or(Get(fbd, "org"), PyStr("N/A")),
            asn          |-> PyStr("N/A")])

\* the GeoRecord made of the secondary provider's response body
fallback_data(fbd) ==
    PyDict([country_name |-> Or(Or(Get(fbd, "country_name"), Get(fbd, "country")), PyStr("N/A")),
            city         |-> Or(Get(fbd, "city"), PyStr("N/A")),
            latitude     |-> Or(Get(fbd, "latitude"), PyNum(0)),
            longitude    |-> Or(Get(fbd, "longitude"), PyNum(0)),
            org          |-> Or(Get(fbd, "IPv4"), PyStr("N/A")),
            asn          |-> PyStr("N/A")])

\* mutant: the cache is read whatever skip_cache says
ReadsCache_always(skip_cache) == TRUE

\* `if not skip_cache`: the cache is read
ReadsCache(skip_cache) == ~skip_cache

\* `if cached`: what load_cache gave is returned
CacheHit(cached) == Truthy(cached)

\* mutant: the body's error field is not looked at
HasApiError_unchecked(data) == FALSE

\* `if data.get('error')`: the body carries an application error
HasApiError(data) == Truthy(Get(data, "error"))

\* mutant: no status is taken for a rate limit
IsRateLimited_never(resp) == FALSE

\* mutant: every HTTP error status is taken for a rate limit
IsRateLimited_any_error(resp) == resp.status_code >= 400

\* `e.response is not None and e.response.status_code == 429`
IsRateLimited(resp) == resp.status_code = 429

\* one run of get_ip_info: what it hands back (out), the cache file it leaves
\* (file), the URLs it requested in order (calls) and what it echoed (stderr)
GeoRun(out, file, calls, stderr) ==
    [out |-> out, file |-> file, calls |-> calls, stderr |-> stderr]

\* get_ip_info(ip_address, skip_cache=skip_cache) at time t on cache file
\* `file`, where the primary provider would reply prim and the secondary fb
get_ip_info(file, t, ip_address, skip_cache, prim, fb) ==
    LET cached == IF ReadsCache(skip_cache) THEN load_cache(file, t, ip_address) ELSE PyNone
        p == PrimaryUrl(ip_address)
        f == FallbackUrl(ip_address)
        notice == Echo("Rate limit reached on ipapi.co, using fallback...", <<>>)
    IN  IF ReadsCache(skip_cache) /\ CacheHit(cached)
        THEN GeoRun(Return(cached), file, <<>>, <<>>)
        ELSE IF prim.kind = "exception"
        THEN GeoRun(Exit(1), file, <<p>>,
                    <<Echo("Network error fetching IP information: ", ErrorOf(prim))>>)
        ELSE IF RaisesHTTPError(prim)
        THEN IF IsRateLimited(prim)
             THEN IF RaisesRequestException(fb)
                  THEN GeoRun(Exit(1), file, <<p, f>>,
                              <<notice, Echo("Fallback service error: ", ErrorOf(fb))>>)
                  ELSE LET data == fallback_data(fb.body)
                       IN  GeoRun(Return(data), save_cache(file, t, ip_address, data),
                                  <<p, f>>, <<notice>>)
             ELSE GeoRun(Exit(1), file, <<p>>,
                         <<Echo("Error fetching IP information: ", ErrorOf(prim))>>)
        ELSE LET data == prim.body
             IN  IF HasApiError(data)
                 THEN GeoRun(Exit(1), file, <<p>>,
                             <<Echo("API error: ", Get(data, "error"))>>)
                 ELSE GeoRun(Return(data), save_cache(file, t, ip_address, data),
                             <<p>>, <<>>)

----------------------------------------------------------------------------
(* Address resolver *)

\* the echo endpoints of an IP version, in the order they are tried
Urls(ip_type) ==
    IF ip_type = "ipv4"
    THEN <<"https://api.ipify.org">>
    ELSE <<"https://api6.ipify.org", "https://ipv6.icanhazip.com">>

\* proxies = {'http': proxy, 'https': proxy} if proxy else None
Proxies(proxy) == IF Truthy(proxy) THEN PyDict([http |-> proxy, https |-> proxy]) ELSE PyNone

\* requests.get(url, proxies=proxies, verify=False, timeout=5)
Request(url, proxies) == [url |-> url, proxies |-> proxies, verify |-> FALSE, timeout |-> 5]

\* the characters str.strip() removes; a text is a sequence of characters
IsSpace(c) == c \in {" ", "\t", "\n", "\r", "\f"}

RECURSIVE lstrip(_)
lstrip(s) == IF s # <<>> /\ IsSpace(Head(s)) THEN lstrip(Tail(s)) ELSE s

RECURSIVE rstrip(_)
rstrip(s) == IF s # <<>> /\ IsSpace(s[Len(s)]) THEN rstrip(SubSeq(s, 1, Len(s) - 1)) ELSE s

\* resp.text.strip()
strip(s) == rstrip(lstrip(s))

\* mutant: the loop does not return at the first success, it goes on to the
\* end of the list and hands back the last success
RECURSIVE TryUrls_no_return(_, _, _, _, _, _)
TryUrls_no_return(urls, proxies, replies, i, calls, last_error) ==
    IF i > Len(urls)
    THEN IF \E k \in 1..Len(urls) : ~RaisesRequestException(replies[k])
         THEN LET k == CHOOSE k \in 1..Len(urls) :
                           /\ ~RaisesRequestException(replies[k])
                           /\ \A j \in (k + 1)..Len(urls) : RaisesRequestException(replies[j])
              IN  [returned |-> TRUE, value |-> strip(replies[k].body), calls |-> calls]
         ELSE [returned |-> FALSE, last_error |-> last_error, calls |-> calls]
    ELSE TryUrls_no_return(urls, proxies, replies, i + 1,
                           Append(calls, Request(urls[i], proxies)),
                           IF RaisesRequestException(replies[i])
                           THEN ErrorOf(replies[i]) ELSE last_error)

\* `for url in urls` from the i-th url on, where endpoint k would reply
\* replies[k]: the text returned, or the last error once the list is exhausted
RECURSIVE TryUrls(_, _, _, _, _, _)
TryUrls(urls, proxies, replies, i, calls, last_error) ==
    IF i > Len(urls)
    THEN [returned |-> FALSE, last_error |-> last_error, calls |-> calls]
    ELSE IF RaisesRequestException(replies[i])
         THEN TryUrls(urls, proxies, replies, i + 1,
                      Append(calls, Request(urls[i], proxies)), ErrorOf(replies[i]))
         ELSE [returned |-> TRUE, value |-> strip(replies[i].body),
               calls |-> Append(calls, Request(urls[i], proxies))]

\* mutant: one message for both versions
ExhaustedMessage_same(ip_type, last_error) ==
    Echo("Error fetching IPv4 address: ", last_error)

\* what is echoed once every endpoint has failed
ExhaustedMessage(ip_type, last_error) ==
    IF ip_type = "ipv6"
    THEN Echo("Unable to retrieve an IPv6 address: your environment does not appear to support IPv6 or DNS resolution failed.", <<>>)
    ELSE Echo("Error fetching IPv4 address: ", last_error)

\* get_ip_address(ip_type, proxy), where endpoint k would reply replies[k]:
\* what it hands back (out), its requests in order (calls), what it echoed
get_ip_address(ip_type, proxy, replies) ==
    IF ip_type \notin {"ipv4", "ipv6"}
    THEN [out |-> Exit(1), calls |-> <<>>,
          stderr |-> <<Echo("Error: invalid IP type specified. Must be 'ipv4' or 'ipv6'.", <<>>)>>]
    ELSE LET loop == TryUrls(Urls(ip_type), Proxies(proxy), replies, 1, <<>>, PyNone)
         IN  IF loop.returned
             THEN [out |-> Return(loop.value), calls |-> loop.calls, stderr |-> <<>>]
             ELSE [out |-> Exit(1), calls |-> loop.calls,
                   stderr |-> <<ExhaustedMessage(ip_type, loop.last_error)>>]

----------------------------------------------------------------------------
(* The inputs of the specifications *)

IPs == {"1.2.3.4", "8.8.8.8"}

\* primary-provider bodies: none of the fields, the six fields, an error
\* message, and an error field that says "no error"
FullRecord ==
    PyDict([country_name |-> PyStr("US"), city |-> PyStr("NY"), latitude |-> PyNum(0),
            longitude |-> PyNum(0), org |-> PyStr("Org"), asn |-> PyStr("AS")])
ErrorBody == PyDict([error |-> PyStr("invalid")])
NoErrorBody == PyDict([error |-> PyBool(FALSE)])
PrimaryBodies == {EmptyDict, FullRecord, ErrorBody, NoErrorBody}

\* ipapi.co answers a rate-limited request with status 429 and an error body
PrimaryReplies ==
    {Response(200, b) : b \in PrimaryBodies}
      \cup {Response(429, ErrorBody), Response(500, ErrorBody), ConnectionError}

\* secondary-provider bodies: with country_name, and with country only
FallbackBodies ==
    {PyDict([country_name |-> PyStr("FB"), city |-> PyStr("FBCITY"), latitude |-> PyNum(1),
             longitude |-> PyNum(2), IPv4 |-> PyStr("FBORG")]),
     PyDict([country |-> PyStr("X"), city |-> PyStr("Y"), latitude |-> PyNum(1),
             longitude |-> PyNum(2), IPv4 |-> PyStr("Z")])}

FallbackReplies ==
    {Response(200, b) : b \in FallbackBodies} \cup {Response(500, EmptyDict), ConnectionError}

\* the records the cache-store specification hands save_cache
GeoRecords == {EmptyDict, FullRecord} \cup {fallback_data(b) : b \in FallbackBodies}

\* the times the model's clock can show
ClockReads(t) == t \div CACHE_TTL <= 1 /\ t % CACHE_TTL <= MaxSkew

NotRequested == [kind |-> "not requested"]
Idle == [op |-> "none"]
\* no process is running save_cache
NoRace == [before |-> NoFile, procs |-> <<>>]

\* the IP versions callers ask for
IpTypes == {"ipv4", "ipv6", "invalid"}
ProxyArgs == {PyNone, PyStr("http://127.0.0.1:8080")}

\* the texts of at most n characters
Chars == {" ", "\n", "7"}
RECURSIVE TextsUpTo(_)
TextsUpTo(n) ==
    IF n = 0 THEN {<<>>}
    ELSE TextsUpTo(n - 1) \cup {Append(t, c) : t \in TextsUpTo(n - 1), c \in Chars}

EchoReplies ==
    {Response(200, t) : t \in TextsUpTo(MaxLen)} \cup {Response(500, <<>>), ConnectionError}

\* secondary-provider bodies: each field missing, null, empty, zero or set
Missing == <<"missing">>
SecondaryBody(country_name, country, city, latitude, longitude, IPv4, asn) ==
    LET all == [country_name |-> country_name, country |-> country, city |-> city,
                latitude |-> latitude, longitude |-> longitude, IPv4 |-> IPv4, asn |-> asn]
    IN  PyDict([k \in {j \in DOMAIN all : all[j] # Missing} |-> all[k]])
SecondaryBodies ==
    {SecondaryBody(cn, c, ci, la, lo, v4, asn) :
        cn \in {Missing, PyNone, PyStr(""), PyStr("FB")},
        c \in {Missing, PyStr("X")},
        ci \in {Missing, PyNone, PyStr("Y")},
        la \in {Missing, PyNum(0), PyNum(1)},
        lo \in {Missing, PyNone, PyNum(2)},
        v4 \in {Missing, PyStr(""), PyStr("Z")},
        asn \in {Missing, PyStr("AS9")}}

----------------------------------------------------------------------------
(* Geo-lookup specification: get_ip_info on the cache file, and the clock *)

Init ==
    /\ CACHE_FILE = NoFile
    /\ now = 0
    /\ last = Idle
    /\ res = Idle
    /\ fbdata = EmptyDict
    /\ mapped = PyNone
    /\ web = Idle
    /\ race = NoRace

\* a call of get_ip_info, whole; a reply that was not requested is not recorded
GetIpInfo ==
    \E ip \in IPs, skip \in BOOLEAN, prim \in PrimaryReplies, fb \in FallbackReplies :
        \E run \in {get_ip_info(CACHE_FILE, now, ip, skip, prim, fb)} :
            /\ CACHE_FILE' = run.file
            /\ last' = [op |-> "get_ip_info", ip |-> ip, skip_cache |-> skip,
                        at |-> now, pre |-> CACHE_FILE,
                        primary |-> IF Len(run.calls) >= 1 THEN prim ELSE NotRequested,
                        fallback |-> IF Len(run.calls) >= 2 THEN fb ELSE NotRequested,
                        out |-> run.out, calls |-> run.calls, stderr |-> run.stderr]
            /\ UNCHANGED <<now, res, fbdata, mapped, web, race>>

\* time passes, a second or a whole TTL; the call just made is then forgotten
Tick ==
    \E d \in {1, CACHE_TTL} :
        /\ ClockReads(now + d)
        /\ now' = now + d
        /\ last' = Idle
        /\ UNCHANGED <<CACHE_FILE, res, fbdata, mapped, web, race>>

Next == GetIpInfo \/ Tick

Spec == Init /\ [][Next]_vars

----------------------------------------------------------------------------
(* Cache-store specification: save_cache and load_cache called directly *)

\* a call of save_cache
SaveCache ==
    \E ip \in IPs, info \in GeoRecords :
        /\ CACHE_FILE' = save_cache(CACHE_FILE, now, ip, info)
        /\ last' = [op |-> "save_cache", ip |-> ip, info |-> info, at |-> now,
                    pre |-> CACHE_FILE]
        /\ UNCHANGED <<now, res, fbdata, mapped, web, race>>

\* a call of load_cache; after is the save_cache call it follows, if it
\* follows one (replaced: that call found an entry of its IP in the store)
LoadCache ==
    \E ip \in IPs :
        /\ last' = [op |-> "load_cache", ip |-> ip, at |-> now, pre |-> CACHE_FILE,
                    out |-> Return(load_cache(CACHE_FILE, now, ip)),
                    after |-> IF last.op = "save_cache"
                              THEN [op |-> "save_cache", ip |-> last.ip,
                                    info |-> last.info, at |-> last.at,
                                    replaced |-> last.pre # NoFile
                                                   /\ last.ip \in DOMAIN last.pre[2]]
                              ELSE Idle]
        /\ UNCHANGED <<CACHE_FILE, now, res, fbdata, mapped, web, race>>

\* time passes between two calls
Wait ==
    \E d \in {1, CACHE_TTL} :
        /\ ClockReads(now + d)
        /\ now' = now + d
        /\ UNCHANGED <<CACHE_FILE, last, res, fbdata, mapped, web, race>>

NextCache == SaveCache \/ LoadCache \/ Wait

SpecCache == Init /\ [][NextCache]_vars

----------------------------------------------------------------------------
(* What a cache file holds, read off the JSON document *)

HoldsEntry(file, ip) == file # NoFile /\ ip \in DOMAIN file[2]
EntryTime(file, ip) == file[2][ip][2]["timestamp"][2]
EntryInfo(file, ip) == json_loads(file[2][ip][2]["info"])
\* the file holds an entry for ip that is not older than the TTL at time t
Fresh(file, t, ip) == HoldsEntry(file, ip) /\ t - EntryTime(file, ip) <= CACHE_TTL

\* the last call was get_ip_info
Looked == last.op = "get_ip_info"
\* ... and it requested the primary provider, which answered with a response
PrimaryAnswered == Looked /\ last.primary.kind = "response"
\* the HTTP status is a success status
StatusOk(reply) == reply.status_code < 400
\* how often url was requested
Requests(url) == Cardinality({i \in 1..Len(last.calls) : last.calls[i] = url})

\* the failure kinds of a lookup, as get_ip_info signals them: typer.Exit(1)
\* after the kind's message on stderr
Signals(text, detail) == last.out = Exit(1) /\ last.stderr = <<Echo(text, detail)>>
ApiError == Signals("API error: ", Get(last.primary.body, "error"))
ProviderError == Signals("Error fetching IP information: ", ErrorOf(last.primary))
NetworkFailure == Signals("Network error fetching IP information: ", ErrorOf(last.primary))

----------------------------------------------------------------------------
(* Claims on the geo lookup (specification Spec) *)

\* C1: a lookup with skip_cache=false of an IP whose cache entry is not
\* expired returns that entry's GeoRecord, whatever it holds, and requests
\* nothing from either provider.
C1_FreshEntryIsReturned ==
    (Looked /\ ~last.skip_cache /\ Fresh(last.pre, last.at, last.ip))
        => /\ last.out = Return(EntryInfo(last.pre, last.ip))
           /\ last.calls = <<>>

\* C2: a lookup of an IP whose cache entry is expired or absent requests the
\* primary provider exactly once, the fallback provider exactly once if the
\* primary answered 429 and not at all otherwise, and nothing else.
C2_OneRequestPerProvider ==
    (Looked /\ ~Fresh(last.pre, last.at, last.ip))
        => /\ Requests(PrimaryUrl(last.ip)) = 1
           /\ Requests(FallbackUrl(last.ip)) =
                  (IF last.primary.kind = "response" /\ last.primary.status_code = 429
                   THEN 1 ELSE 0)
           /\ Len(last.calls) = Requests(PrimaryUrl(last.ip)) + Requests(FallbackUrl(last.ip))
           /\ Len(last.calls) <= 2

\* C2 happens: an expired entry, a 429, and the two requests in order
C2_Witness ==
    /\ Looked /\ ~last.skip_cache
    /\ HoldsEntry(last.pre, last.ip) /\ ~Fresh(last.pre, last.at, last.ip)
    /\ last.primary.kind = "response" /\ last.primary.status_code = 429
    /\ last.calls = <<PrimaryUrl(last.ip), FallbackUrl(last.ip)>>

\* C3: a lookup with skip_cache=true requests the primary provider even when
\* the cache holds a fresh entry, and when it succeeds the cache holds for the
\* IP the returned record with the current timestamp.
C3_SkipCacheBypassesReadNotWrite ==
    (Looked /\ last.skip_cache)
        => /\ Len(last.calls) >= 1 /\ last.calls[1] = PrimaryUrl(last.ip)
           /\ last.out.kind = "return"
                => /\ HoldsEntry(CACHE_FILE, last.ip)
                   /\ EntryTime(CACHE_FILE, last.ip) = last.at
                   /\ EntryInfo(CACHE_FILE, last.ip) = last.out.value

\* C3 happens: a fresh entry with fields was there, written earlier, and the
\* lookup returned another record
C3_Witness ==
    /\ Looked /\ last.skip_cache
    /\ Fresh(last.pre, last.at, last.ip)
    /\ EntryInfo(last.pre, last.ip) = FullRecord
    /\ EntryTime(last.pre, last.ip) < last.at
    /\ last.out.kind = "return" /\ last.out.value # FullRecord

\* C4: when the primary answers 429 and the fallback answers with data, the
\* lookup returns the record made of the fallback's body and the cache holds
\* it for the IP, timestamped now; and every lookup that returns after a
\* request leaves the returned record in the cache, timestamped now.
C4_SuccessIsPersisted ==
    /\ (PrimaryAnswered /\ last.primary.status_code = 429
          /\ last.fallback.kind = "response" /\ StatusOk(last.fallback))
        => /\ last.out = Return(fallback_data(last.fallback.body))
           /\ HoldsEntry(CACHE_FILE, last.ip)
           /\ EntryTime(CACHE_FILE, last.ip) = last.at
           /\ EntryInfo(CACHE_FILE, last.ip) = fallback_data(last.fallback.body)
    /\ (Looked /\ last.calls # <<>> /\ last.out.kind = "return")
        => /\ HoldsEntry(CACHE_FILE, last.ip)
           /\ EntryTime(CACHE_FILE, last.ip) = last.at
           /\ EntryInfo(CACHE_FILE, last.ip) = last.out.value

\* C4 happens: the fallback's record replaced an older entry of the IP
C4_Witness ==
    /\ PrimaryAnswered /\ last.primary.status_code = 429
    /\ last.fallback.kind = "response" /\ StatusOk(last.fallback)
    /\ HoldsEntry(last.pre, last.ip)
    /\ EntryInfo(last.pre, last.ip) # last.out.value
    /\ EntryTime(last.pre, last.ip) < last.at

\* C5, as stated: when the primary's response body carries an error field,
\* the lookup signals ApiError, writes no cache entry and requests no fallback.
C5_ErrorFieldIsApiError ==
    (PrimaryAnswered /\ "error" \in DOMAIN last.primary.body[2])
        => /\ ApiError
           /\ CACHE_FILE = last.pre
           /\ last.calls = <<PrimaryUrl(last.ip)>>

\* C5, amended: when the primary answers with a success status and a body
\* whose error field is truthy (not null, false, empty or zero), the lookup
\* signals ApiError, writes no cache entry and requests no fallback.
C5_TruthyErrorOnSuccessStatusIsApiError ==
    (PrimaryAnswered /\ StatusOk(last.primary)
       /\ "error" \in DOMAIN last.primary.body[2]
       /\ Truthy(last.primary.body[2]["error"]))
        => /\ ApiError
           /\ CACHE_FILE = last.pre
           /\ last.calls = <<PrimaryUrl(last.ip)>>

\* C5 happens: an error body on status 200, with a cache file already there
C5_Witness ==
    /\ PrimaryAnswered /\ last.primary = Response(200, ErrorBody)
    /\ last.pre # NoFile
    /\ last.out = Exit(1)

\* C6: the fallback is requested only after a primary 429; on any other
\* primary HTTP error status (ProviderError) and on a primary transport
\* failure (NetworkFailure) the lookup fails without a fallback request and
\* without a cache write.
C6_FallbackOnlyOn429 ==
    /\ (Looked /\ Requests(FallbackUrl(last.ip)) > 0)
        => last.primary.kind = "response" /\ last.primary.status_code = 429
    /\ (PrimaryAnswered /\ ~StatusOk(last.primary) /\ last.primary.status_code # 429)
        => ProviderError /\ last.calls = <<PrimaryUrl(last.ip)>> /\ CACHE_FILE = last.pre
    /\ (Looked /\ last.primary.kind = "exception")
        => NetworkFailure /\ last.calls = <<PrimaryUrl(last.ip)>> /\ CACHE_FILE = last.pre

\* C6 happens: a primary 500 with a cache file already there
C6_Witness ==
    /\ PrimaryAnswered /\ last.primary.status_code = 500
    /\ last.pre # NoFile
    /\ last.out = Exit(1)

----------------------------------------------------------------------------
(* Resolver specification: get_ip_address, one call per invocation *)

\* a call of get_ip_address, whole; only the replies it asked for are recorded
GetIpAddress ==
    /\ res = Idle
    /\ \E ip_type \in IpTypes, proxy \in ProxyArgs :
         \E replies \in [1..Len(Urls(ip_type)) -> EchoReplies] :
           \E run \in {get_ip_address(ip_type, proxy, replies)} :
             /\ res' = [op |-> "get_ip_address", ip_type |-> ip_type, proxy |-> proxy,
                        replies |-> SubSeq(replies, 1, Len(run.calls)),
                        out |-> run.out, calls |-> run.calls, stderr |-> run.stderr]
             /\ UNCHANGED <<CACHE_FILE, now, last, fbdata, mapped, web, race>>

\* the invocation is over
InvocationEnds ==
    /\ res # Idle
    /\ res' = Idle
    /\ UNCHANGED <<CACHE_FILE, now, last, fbdata, mapped, web, race>>

NextResolver == GetIpAddress \/ InvocationEnds

SpecResolver == Init /\ [][NextResolver]_vars

----------------------------------------------------------------------------
(* Fallback-mapping specification: the mapping applied to a secondary body *)

InitFallback ==
    /\ CACHE_FILE = NoFile
    /\ now = 0
    /\ last = Idle
    /\ res = Idle
    /\ fbdata \in SecondaryBodies
    /\ mapped = PyNone
    /\ web = Idle
    /\ race = NoRace

\* data = {...} of the fallback path
MapFallback ==
    /\ mapped = PyNone
    /\ mapped' = fallback_data(fbdata)
    /\ UNCHANGED <<CACHE_FILE, now, last, res, fbdata, web, race>>

NextFallback == MapFallback

SpecFallback == InitFallback /\ [][NextFallback]_vars

----------------------------------------------------------------------------
(* Claims on the address resolver (specification SpecResolver) *)

\* the last call was get_ip_address for a valid IP version
Resolved == res.op = "get_ip_address" /\ res.ip_type \in {"ipv4", "ipv6"}
\* the reply is a failure of the endpoint: no response, or an error status
Failed(reply) == reply.kind = "exception" \/ reply.status_code >= 400
\* every endpoint of the version was requested and failed
Exhausted(n) ==
    /\ Len(res.replies) = n
    /\ \A i \in 1..n : Failed(res.replies[i])

\* the two failure kinds of an exhausted resolver: typer.Exit(1) after the
\* kind's message on stderr
Ipv6Unsupported ==
    /\ res.out = Exit(1)
    /\ res.stderr = <<Echo("Unable to retrieve an IPv6 address: your environment does not appear to support IPv6 or DNS resolution failed.", <<>>)>>
ResolverNetworkFailure(error) ==
    /\ res.out = Exit(1)
    /\ res.stderr = <<Echo("Error fetching IPv4 address: ", error)>>

\* C7: with its one endpoint failing, the v4 resolver signals NetworkFailure
\* carrying that endpoint's error; with both endpoints failing, the v6
\* resolver signals Ipv6Unsupported, which is not the NetworkFailure signal of
\* any error.
C7_ExhaustionKindByVersion ==
    /\ (Resolved /\ res.ip_type = "ipv4" /\ Exhausted(1))
        => ResolverNetworkFailure(ErrorOf(res.replies[1]))
    /\ (Resolved /\ res.ip_type = "ipv6" /\ Exhausted(2))
        => /\ Ipv6Unsupported
           /\ \A r \in EchoReplies : Failed(r) => ~ResolverNetworkFailure(ErrorOf(r))

\* C7 happens: both v6 endpoints failed, in two ways
C7_Witness ==
    /\ Resolved /\ res.ip_type = "ipv6" /\ Exhausted(2)
    /\ res.replies[1] # res.replies[2]
    /\ res.out = Exit(1)

\* v is s without its leading and trailing whitespace
IsTrimOf(v, s) ==
    \E i \in 0..Len(s), j \in 0..Len(s) :
        /\ i + j <= Len(s)
        /\ v = SubSeq(s, i + 1, Len(s) - j)
        /\ \A k \in 1..i : IsSpace(s[k])
        /\ \A k \in (Len(s) - j + 1)..Len(s) : IsSpace(s[k])
        /\ v # <<>> => ~IsSpace(v[1]) /\ ~IsSpace(v[Len(v)])

\* C8: the resolver requests its endpoints in list order, each at most once,
\* the next one only after the one before it failed; at the first success it
\* returns that endpoint's trimmed body and requests no further endpoint.
C8_EndpointsInOrderUntilSuccess ==
    Resolved =>
        LET n == Len(res.calls)
        IN  /\ n >= 1 /\ n <= Len(Urls(res.ip_type))
            /\ \A i \in 1..n : res.calls[i].url = Urls(res.ip_type)[i]
            /\ \A i \in 1..(n - 1) : Failed(res.replies[i])
            /\ ~Failed(res.replies[n])
                => /\ res.out.kind = "return"
                   /\ IsTrimOf(res.out.value, res.replies[n].body)
            /\ Failed(res.replies[n])
                => n = Len(Urls(res.ip_type)) /\ res.out = Exit(1)

\* C8 happens: the first of two endpoints answers, with whitespace to trim
C8_Witness ==
    /\ Resolved /\ res.ip_type = "ipv6"
    /\ Len(res.calls) = 1
    /\ res.replies[1] = Response(200, <<" ", "7", "\n">>)
    /\ res.out = Return(<<"7">>)

----------------------------------------------------------------------------
(* Claims on the fallback mapping (specification SpecFallback) *)

CanonicalFields == {"country_name", "city", "latitude", "longitude", "org", "asn"}
\* the body has the field
Present(k) == k \in DOMAIN fbdata[2]
\* the body has the field with a truthy value
Set(k) == Present(k) /\ Truthy(fbdata[2][k])

\* C9, as stated: the record has exactly the six canonical fields, each the
\* body's field when the body has it (country_name, else country) and else
\* the default: "N/A", 0 for the coordinates; org is the body's IPv4; asn "N/A".
C9_MappingOfPresentFields ==
    mapped # PyNone =>
        /\ DOMAIN mapped[2] = CanonicalFields
        /\ mapped[2]["country_name"] =
              (IF Present("country_name") THEN fbdata[2]["country_name"]
               ELSE IF Present("country") THEN fbdata[2]["country"] ELSE PyStr("N/A"))
        /\ mapped[2]["city"] = (IF Present("city") THEN fbdata[2]["city"] ELSE PyStr("N/A"))
        /\ mapped[2]["latitude"] =
              (IF Present("latitude") THEN fbdata[2]["latitude"] ELSE PyNum(0))
        /\ mapped[2]["longitude"] =
              (IF Present("longitude") THEN fbdata[2]["longitude"] ELSE PyNum(0))
        /\ mapped[2]["org"] = (IF Present("IPv4") THEN fbdata[2]["IPv4"] ELSE PyStr("N/A"))
        /\ mapped[2]["asn"] = PyStr("N/A")

\* C9, amended: the same with "has the field with a truthy value" (not null,
\* not empty, not zero) for "has the field".
C9_MappingOfTruthyFields ==
    mapped # PyNone =>
        /\ DOMAIN mapped[2] = CanonicalFields
        /\ mapped[2]["country_name"] =
              (IF Set("country_name") THEN fbdata[2]["country_name"]
               ELSE IF Set("country") THEN fbdata[2]["country"] ELSE PyStr("N/A"))
        /\ mapped[2]["city"] = (IF Set("city") THEN fbdata[2]["city"] ELSE PyStr("N/A"))
        /\ mapped[2]["latitude"] =
              (IF Set("latitude") THEN fbdata[2]["latitude"] ELSE PyNum(0))
        /\ mapped[2]["longitude"] =
              (IF Set("longitude") THEN fbdata[2]["longitude"] ELSE PyNum(0))
        /\ mapped[2]["org"] = (IF Set("IPv4") THEN fbdata[2]["IPv4"] ELSE PyStr("N/A"))
        /\ mapped[2]["asn"] = PyStr("N/A")

\* C9 happens: an empty country_name beside a country, a null city, an asn
C9_Witness ==
    /\ mapped # PyNone
    /\ Present("country_name") /\ ~Set("country_name") /\ Set("country")
    /\ Present("city") /\ ~Set("city")
    /\ Set("IPv4") /\ Set("asn")
    /\ mapped[2]["country_name"] = PyStr("X")
    /\ mapped[2]["org"] = PyStr("Z")

----------------------------------------------------------------------------
(* Claims on the cache store (specification SpecCache) *)

\* C10: load_cache(ip) called right after save_cache(ip, record), within the
\* TTL of it, returns a record equal to record, whatever the store held.
C10_SaveThenLoadRoundTrip ==
    (last.op = "load_cache" /\ last.after.op = "save_cache"
       /\ last.after.ip = last.ip /\ last.at - last.after.at <= CACHE_TTL)
        => last.out = Return(last.after.info)

\* C10 happens: a record with numbers read back a whole TTL after it replaced
\* another entry
C10_Witness ==
    /\ last.op = "load_cache" /\ last.after.op = "save_cache"
    /\ last.after.ip = last.ip /\ last.at - last.after.at = CACHE_TTL
    /\ last.after.info = FullRecord /\ last.after.replaced
    /\ last.out = Return(FullRecord)

----------------------------------------------------------------------------
(* C11: load_cache and the TTL *)

\* the last call was load_cache
Loaded == last.op = "load_cache"

\* C11: load_cache(ip) returns the stored record exactly when the store
\* exists, holds an entry for ip, and that entry is at most CACHE_TTL seconds
\* old (an entry exactly CACHE_TTL old is still returned); otherwise it returns
\* None. The store it leaves is the store it found: an expired entry stays.
C11_LoadCacheNeverStale ==
    Loaded =>
        /\ Fresh(last.pre, last.at, last.ip)
              => last.out = Return(EntryInfo(last.pre, last.ip))
        /\ ~Fresh(last.pre, last.at, last.ip) => last.out = Return(PyNone)
        /\ CACHE_FILE = last.pre

\* load_cache met an expired entry, returned None, and the entry is still there
C11_Witness ==
    /\ Loaded
    /\ HoldsEntry(last.pre, last.ip)
    /\ last.at - EntryTime(last.pre, last.ip) > CACHE_TTL
    /\ last.out = Return(PyNone)
    /\ HoldsEntry(CACHE_FILE, last.ip)
    /\ CACHE_FILE[2][last.ip] = last.pre[2][last.ip]

----------------------------------------------------------------------------
(* The web module: ip_utils.py and app.py *)

\* a str value of the web module: a text is a sequence of pieces, each a run
\* of characters, so that `needle in text` can be computed
Text(pieces) == <<"str", pieces>>

\* needle in text
Contains(text, needle) ==
    \E i \in 0..(Len(text) - Len(needle)) : SubSeq(text, i + 1, i + Len(needle)) = needle

\* the truth test on a str or a dict of the web module
WebTruthy(v) == IF v[1] = "str" THEN v[2] # <<>> ELSE Truthy(v)

\* requests.get raises an exception that is no RequestException
UnexpectedError == [kind |-> "exception", exc |-> <<"Exception">>]

\* the except clause a reply ends in: none when nothing is raised
Raised(reply) ==
    CASE reply.kind = "exception" /\ reply.exc = <<"Exception">> -> "Exception"
      [] reply.kind = "exception" /\ reply.exc # <<"Exception">> -> "RequestException"
      [] reply.kind = "response" /\ RaisesHTTPError(reply) -> "RequestException"
      [] OTHER -> "none"

\* "{e}": the text of the exception
StrOfError(reply) ==
    CASE reply.kind = "exception" /\ reply.exc = <<"Exception">> -> <<"Unexpected error">>
      [] reply.kind = "exception" /\ reply.exc # <<"Exception">> -> <<"Request failed">>
      [] reply.kind = "response" /\ reply.status_code < 500 ->
            <<"Client ", "Error", ":", " for url">>
      [] OTHER -> <<"Server ", "Error", ":", " for url">>

\* "{v}": the text of a value of a response body
Str(v) ==
    CASE v[1] = "str"  -> <<v[2]>>
      [] v[1] = "bool" -> <<IF v[2] THEN "True" ELSE "False">>
      [] v[1] = "None" -> <<"None">>
      [] OTHER -> <<"{...}">>

\* the echo endpoint of ip_utils.get_ip_address
EchoUrl(ip_type) ==
    IF ip_type = "ipv6" THEN <<"https://api6.ipify.org">> ELSE <<"https://api.ipify.org">>

\* mutant: a type that is not 'ipv6' is taken for 'ipv4'
ip_utils_get_ip_address_else_ipv4(ip_type, reply) ==
    CASE Raised(reply) = "none" ->
            [out |-> Return(Text(strip(reply.body))), calls |-> <<EchoUrl(ip_type)>>]
      [] Raised(reply) = "RequestException" ->
            [out |-> Return(Text(<<"Error", ":", " Failed to retrieve IP address", ":", " ">>
                                   \o StrOfError(reply))),
             calls |-> <<EchoUrl(ip_type)>>]
      [] OTHER ->
            [out |-> Return(Text(<<"An unexpected error occurred", ":", " ">>
                                   \o StrOfError(reply))),
             calls |-> <<EchoUrl(ip_type)>>]

\* ip_utils.get_ip_address(ip_type), where the endpoint would reply `reply`:
\* the str it returns (out) and its requests (calls)
ip_utils_get_ip_address(ip_type, reply) ==
    IF ip_type \notin {"ipv4", "ipv6"}
    THEN [out |-> Return(Text(<<"Error", ":",
                                " Invalid IP type specified.  Must be 'ipv4' or 'ipv6'.">>)),
          calls |-> <<>>]
    ELSE CASE Raised(reply) = "none" ->
                 [out |-> Return(Text(strip(reply.body))), calls |-> <<EchoUrl(ip_type)>>]
           [] Raised(reply) = "RequestException" ->
                 [out |-> Return(Text(<<"Error", ":", " Failed to retrieve IP address", ":", " ">>
                                        \o StrOfError(reply))),
                  calls |-> <<EchoUrl(ip_type)>>]
           [] OTHER ->
                 [out |-> Return(Text(<<"An unexpected error occurred", ":", " ">>
                                        \o StrOfError(reply))),
                  calls |-> <<EchoUrl(ip_type)>>]

\* f"http://ip-api.com/json/{ip_address}"
InfoUrl(ip_address) == <<"http://ip-api.com/json/", ip_address, "">>

\* ip_utils.get_ip_info(ip_address), where the provider would reply `reply`:
\* the mapping or the str it returns (out) and its requests (calls)
ip_utils_get_ip_info(ip_address, reply) ==
    CASE Raised(reply) = "Exception" ->
            [out |-> Return(Text(<<"An unexpected error occurred", ":", " ">>
                                   \o StrOfError(reply))),
             calls |-> <<InfoUrl(ip_address)>>]
      [] Raised(reply) = "RequestException" ->
            [out |-> Return(Text(<<"Error", ":", " Failed to retrieve IP information", ":", " ">>
                                   \o StrOfError(reply))),
             calls |-> <<InfoUrl(ip_address)>>]
      [] OTHER ->
            IF Truthy(Get(reply.body, "error"))
            THEN [out |-> Return(Text(<<"Error", " from ipapi.co", ":", " ">>
                                        \o Str(reply.body[2]["error"]))),
                  calls |-> <<InfoUrl(ip_address)>>]
            ELSE [out |-> Return(reply.body), calls |-> <<InfoUrl(ip_address)>>]

\* ip_type.upper()
upper(ip_type) ==
    CASE ip_type = "ipv4" -> "IPV4"
      [] ip_type = "ipv6" -> "IPV6"
      [] OTHER -> "INVALID"

\* ip_info.get(k, 'N/A')
GetOrNA(d, k) == IF k \in DOMAIN d[2] THEN d[2][k] ELSE PyStr("N/A")

\* 'str' object has no attribute 'get'
AttributeError == [kind |-> "raise", exc |-> "AttributeError", code |-> 0]

\* display_ip_info(ip_type), where the echo endpoint would reply `echo` and the
\* provider `info`: how it ends (out), what it printed (stdout), the arguments
\* it called get_ip_info with (looked_up), what get_ip_info returned (ip_info)
display_ip_info(ip_type, echo, info) ==
    LET ip_address == ip_utils_get_ip_address(ip_type, echo).out.value
        ip_info == ip_utils_get_ip_info(ip_address[2], info).out.value
        address_line == <<"Your public ", upper(ip_type), " address is: ", ip_address>>
    IN  IF Contains(ip_address[2], <<"Error", ":">>)
        THEN [out |-> Return(PyNone), stdout |-> <<ip_address>>,
              ip_address |-> ip_address, looked_up |-> <<>>, ip_info |-> PyNone]
        ELSE IF ip_info[1] = "str" /\ Contains(ip_info[2], <<"Error", ":">>)
        THEN [out |-> Return(PyNone), stdout |-> <<address_line, ip_info>>,
              ip_address |-> ip_address, looked_up |-> <<ip_address>>, ip_info |-> ip_info]
        ELSE IF ~WebTruthy(ip_info)
        THEN [out |-> Return(PyNone),
              stdout |-> <<address_line,
                           <<"Could not retrieve geolocation and ISP information.">>>>,
              ip_address |-> ip_address, looked_up |-> <<ip_address>>, ip_info |-> ip_info]
        ELSE IF ip_info[1] = "str"
        THEN [out |-> AttributeError,
              stdout |-> <<address_line, <<"\nGeolocation and ISP Information:">>>>,
              ip_address |-> ip_address, looked_up |-> <<ip_address>>, ip_info |-> ip_info]
        ELSE [out |-> Return(PyNone),
              stdout |-> <<address_line, <<"\nGeolocation and ISP Information:">>,
                           <<"  Country: ", GetOrNA(ip_info, "country_name")>>,
                           <<"  City: ", GetOrNA(ip_info, "city")>>,
                           <<"  Latitude: ", GetOrNA(ip_info, "latitude")>>,
                           <<"  Longitude: ", GetOrNA(ip_info, "longitude")>>,
                           <<"  ISP: ", GetOrNA(ip_info, "org")>>,
                           <<"  ASN: ", GetOrNA(ip_info, "asn")>>>>,
              ip_address |-> ip_address, looked_up |-> <<ip_address>>, ip_info |-> ip_info]

\* ipaddress.ip_address(ip).is_global, False when ip does not parse: the
\* addresses the model knows
GlobalAddresses == {"8.8.8.8"}
is_public_ip(ip) == Len(ip[2]) = 1 /\ ip[2][1] \in GlobalAddresses

\* render_template('index.html', error=..., ip=..., info=...)
render_template(error, ip, info) ==
    [template |-> "index.html", error |-> error, ip |-> ip, info |-> info]

\* app.lookup() on the form fields ip_type and custom_ip, where the echo
\* endpoint would reply `echo` and the provider `info`
lookup(ip_type, custom_ip, echo, info) ==
    LET ip_address == IF WebTruthy(custom_ip)
                      THEN Text(strip(custom_ip[2]))
                      ELSE ip_utils_get_ip_address(ip_type, echo).out.value
        ip_info == ip_utils_get_ip_info(ip_address[2], info).out.value
        resolved == IF WebTruthy(custom_ip) THEN PyNone ELSE ip_address
    IN  IF WebTruthy(custom_ip) /\ ~is_public_ip(custom_ip)
        THEN [out |-> Return(render_template(Text(<<"Private or invalid IPs are not allowed.">>),
                                             PyNone, PyNone)),
              ip_address |-> resolved, looked_up |-> <<>>, ip_info |-> PyNone]
        ELSE IF Contains(ip_address[2], <<"Error">>)
        THEN [out |-> Return(render_template(ip_address, PyNone, PyNone)),
              ip_address |-> resolved, looked_up |-> <<>>, ip_info |-> PyNone]
        ELSE IF ip_info[1] = "str" /\ Contains(ip_info[2], <<"Error">>)
        THEN [out |-> Return(render_template(ip_info, PyNone, PyNone)),
              ip_address |-> resolved, looked_up |-> <<ip_address>>, ip_info |-> ip_info]
        ELSE [out |-> Return(render_template(PyNone, ip_address, ip_info)),
              ip_address |-> resolved, looked_up |-> <<ip_address>>, ip_info |-> ip_info]

----------------------------------------------------------------------------
(* Web-module specification: one call into ip_utils.py or app.py at a time *)

\* the addresses get_ip_info is called with directly
WebIPs == {<<"192.0.2.1">>, <<"8.8.8.8">>}
\* what the echo endpoint and the provider give the web module
WebEchoReplies == EchoReplies \cup {UnexpectedError}
WebInfoReplies == PrimaryReplies \cup {UnexpectedError}
\* the custom_ip form field: absent, empty, public, public with a blank, private
CustomIps ==
    {PyNone, Text(<<>>), Text(<<"8.8.8.8">>), Text(<<" ", "8.8.8.8">>), Text(<<"10.0.0.1">>)}

\* a call of ip_utils.get_ip_address
WebGetIpAddress ==
    /\ web = Idle
    /\ \E ip_type \in IpTypes, reply \in WebEchoReplies :
          \E run \in {ip_utils_get_ip_address(ip_type, reply)} :
             web' = [op |-> "get_ip_address", ip_type |-> ip_type,
                     reply |-> IF run.calls # <<>> THEN reply ELSE NotRequested,
                     out |-> run.out, calls |-> run.calls]
    /\ UNCHANGED <<CACHE_FILE, now, last, res, fbdata, mapped, race>>

\* a call of ip_utils.get_ip_info
WebGetIpInfo ==
    /\ web = Idle
    /\ \E ip \in WebIPs, reply \in WebInfoReplies :
          \E run \in {ip_utils_get_ip_info(ip, reply)} :
             web' = [op |-> "get_ip_info", ip |-> ip, reply |-> reply,
                     out |-> run.out, calls |-> run.calls]
    /\ UNCHANGED <<CACHE_FILE, now, last, res, fbdata, mapped, race>>

\* a call of display_ip_info
DisplayIpInfo ==
    /\ web = Idle
    /\ \E ip_type \in IpTypes, echo \in WebEchoReplies, info \in WebInfoReplies :
          \E run \in {display_ip_info(ip_type, echo, info)} :
             web' = [op |-> "display_ip_info", ip_type |-> ip_type,
                     custom_ip |-> PyNone,
                     echo |-> IF ip_type \in {"ipv4", "ipv6"} THEN echo ELSE NotRequested,
                     info |-> IF run.looked_up # <<>> THEN info ELSE NotRequested,
                     ip_address |-> run.ip_address, looked_up |-> run.looked_up,
                     ip_info |-> run.ip_info, out |-> run.out, stdout |-> run.stdout]
    /\ UNCHANGED <<CACHE_FILE, now, last, res, fbdata, mapped, race>>

\* a POST to /lookup
Lookup ==
    /\ web = Idle
    /\ \E ip_type \in IpTypes, custom_ip \in CustomIps,
          echo \in WebEchoReplies, info \in WebInfoReplies :
          \E run \in {lookup(ip_type, custom_ip, echo, info)} :
             web' = [op |-> "lookup", ip_type |-> ip_type, custom_ip |-> custom_ip,
                     echo |-> IF ~WebTruthy(custom_ip) /\ ip_type \in {"ipv4", "ipv6"}
                              THEN echo ELSE NotRequested,
                     info |-> IF run.looked_up # <<>> THEN info ELSE NotRequested,
                     ip_address |-> run.ip_address, looked_up |-> run.looked_up,
                     ip_info |-> run.ip_info, out |-> run.out, stdout |-> <<>>]
    /\ UNCHANGED <<CACHE_FILE, now, last, res, fbdata, mapped, race>>

\* the call is over
WebEnds ==
    /\ web # Idle
    /\ web' = Idle
    /\ UNCHANGED <<CACHE_FILE, now, last, res, fbdata, mapped, race>>

NextWeb == WebGetIpAddress \/ WebGetIpInfo \/ DisplayIpInfo \/ Lookup \/ WebEnds

SpecWeb == Init /\ [][NextWeb]_vars

----------------------------------------------------------------------------
(* C12: failure kinds of a lookup *)

\* why a reply of the provider makes the lookup fail, as the kinds are told
\* apart: a truthy error field under a success status, an HTTP error status
\* other than 429, a failure of the transport
WebCause(reply) ==
    CASE reply.kind = "response" /\ ~RaisesHTTPError(reply)
            /\ Truthy(Get(reply.body, "error")) -> "error field"
      [] reply.kind = "response" /\ RaisesHTTPError(reply)
            /\ reply.status_code # 429 -> "http status"
      [] reply.kind = "exception" /\ reply.exc = <<"ConnectionError">> -> "transport"
      [] OTHER -> "none"

\* what of a failure result names its kind: the message up to the detail
WebKind(out) ==
    LET text == out.value[2]
        k == CHOOSE k \in 1..Len(text) :
                 text[k] = " " /\ \A j \in 1..(k - 1) : text[j] # " "
    IN  SubSeq(text, 1, k)

\* C12: a failed lookup identifies its cause, and no two causes share a kind:
\* in the web module, the failure result of get_ip_info for one cause (error
\* field, HTTP error status other than 429, transport failure) has a kind
\* that no other cause's failure result has.
C12_FailureKindIdentifiesCause ==
    (web.op = "get_ip_info" /\ WebCause(web.reply) # "none") =>
        \A r \in WebInfoReplies :
            WebCause(r) \notin {"none", WebCause(web.reply)}
                => WebKind(ip_utils_get_ip_info(web.ip, r).out) # WebKind(web.out)

----------------------------------------------------------------------------
(* C13: when a lookup writes the store *)

\* the entries of the IPs in `ips` are the same in both files
SameEntries(f, g, ips) ==
    \A ip \in ips :
        /\ HoldsEntry(f, ip) <=> HoldsEntry(g, ip)
        /\ HoldsEntry(f, ip) => f[2][ip] = g[2][ip]

\* C13: a lookup changes the cache store only as the last step of a successful
\* network lookup: a cache hit (the cache is read and holds a non-expired entry
\* of the IP) leaves the whole store as it found it, the hit entry's record and
\* timestamp included; so does every failed lookup; no lookup removes an entry
\* or touches the entry of another IP.
C13_StoreChangesOnlyOnNetworkSuccess ==
    Looked =>
        /\ (~last.skip_cache /\ Fresh(last.pre, last.at, last.ip)) => CACHE_FILE = last.pre
        /\ last.out.kind = "raise" => CACHE_FILE = last.pre
        /\ CACHE_FILE # last.pre => last.out.kind = "return" /\ last.calls # <<>>
        /\ \A ip \in IPs : HoldsEntry(last.pre, ip) => HoldsEntry(CACHE_FILE, ip)
        /\ SameEntries(last.pre, CACHE_FILE, IPs \ {last.ip})

----------------------------------------------------------------------------
(* Race specification: processes running save_cache side by side *)

\* the number of processes
NumProcs == 3
Procs == 1..NumProcs

\* the IPs the processes save
RaceIPs == IPs \cup {"9.9.9.9"}

\* the store before the first process starts: none, or one entry
RaceStores == {NoFile, save_cache(NoFile, 0, "1.2.3.4", EmptyDict)}

\* save_cache up to json.loads: the data the process holds from then on
save_cache_read(file) == IF file # NoFile THEN json_loads(file) ELSE EmptyDict

\* mutant: the data read is dropped, the new entry is all that is written
save_cache_write_alone(data, t, ip_address, info) ==
    json_dumps(SetItem(EmptyDict, ip_address,
                       PyDict([timestamp |-> PyNum(t), info |-> info])))

\* save_cache from data[ip_address] = ... on: the file the process writes
save_cache_write(data, t, ip_address, info) ==
    json_dumps(SetItem(data, ip_address,
                       PyDict([timestamp |-> PyNum(t), info |-> info])))

InitRace ==
    /\ CACHE_FILE \in RaceStores
    /\ now = 1
    /\ last = Idle
    /\ res = Idle
    /\ fbdata = EmptyDict
    /\ mapped = PyNone
    /\ web = Idle
    /\ \E ips \in [Procs -> RaceIPs] :
          race = [before |-> CACHE_FILE,
                  procs |-> [p \in Procs |->
                                [pc |-> "start", ip |-> ips[p], info |-> FullRecord,
                                 data |-> EmptyDict, wrote_at |-> 0]]]

\* process p reads the whole file
RaceRead(p) ==
    /\ race.procs[p].pc = "start"
    /\ race' = [race EXCEPT !.procs[p].pc = "read",
                            !.procs[p].data = save_cache_read(CACHE_FILE)]
    /\ UNCHANGED <<CACHE_FILE, now, last, res, fbdata, mapped, web>>

\* process p writes the whole file; the clock moves on before the next write
RaceWrite(p) ==
    /\ race.procs[p].pc = "read"
    /\ CACHE_FILE' = save_cache_write(race.procs[p].data, now,
                                      race.procs[p].ip, race.procs[p].info)
    /\ now' = now + 1
    /\ race' = [race EXCEPT !.procs[p].pc = "done", !.procs[p].wrote_at = now]
    /\ UNCHANGED <<last, res, fbdata, mapped, web>>

NextRace == \E p \in Procs : RaceRead(p) \/ RaceWrite(p)

SpecRace == InitRace /\ [][NextRace]_vars

----------------------------------------------------------------------------
(* C14: what racing save_cache calls can lose *)

\* every process has written
AllDone == \A p \in Procs : race.procs[p].pc = "done"

\* the entry process p wrote is not in the store
Lost(p) ==
    ~ /\ HoldsEntry(CACHE_FILE, race.procs[p].ip)
      /\ EntryTime(CACHE_FILE, race.procs[p].ip) = race.procs[p].wrote_at
      /\ EntryInfo(CACHE_FILE, race.procs[p].ip) = race.procs[p].info

\* the store still holds an entry for every IP it held before the race, and
\* the very entry if no process saved that IP
BeforeIsKept ==
    \A ip \in RaceIPs :
        HoldsEntry(race.before, ip) =>
            /\ HoldsEntry(CACHE_FILE, ip)
            /\ (\A p \in Procs : race.procs[p].ip # ip)
                   => CACHE_FILE[2][ip] = race.before[2][ip]

\* C14 as stated: when several processes have run save_cache side by side,
\* every entry that was in the store before is still present and at most one
\* of the entries the processes wrote is missing.
C14_AtMostOneWriteLost ==
    AllDone => BeforeIsKept /\ Cardinality({p \in Procs : Lost(p)}) <= 1

\* C14 amended: every entry that was in the store before is still present and
\* the entry of the process that wrote last is present; any of the other
\* entries may be missing, so at most all but one.
C14_LastWriteSurvives ==
    AllDone =>
        /\ BeforeIsKept
        /\ \A p \in Procs :
              (\A q \in Procs : race.procs[q].wrote_at <= race.procs[p].wrote_at) => ~Lost(p)
        /\ Cardinality({p \in Procs : Lost(p)}) <= NumProcs - 1

\* three processes saved three IPs on a store with an entry; the entry is
\* kept, and two of the three entries written are missing
C14_Witness ==
    /\ AllDone
    /\ race.before # NoFile
    /\ \A p, q \in Procs : p # q => race.procs[p].ip # race.procs[q].ip
    /\ BeforeIsKept
    /\ Cardinality({p \in Procs : Lost(p)}) >= 2

----------------------------------------------------------------------------
(* C15: what save_cache changes *)

\* the last call was save_cache
Saved == last.op = "save_cache"

\* the IPs a file holds entries of
Keys(file) == IF file = NoFile THEN {} ELSE DOMAIN file[2]

\* C15: save_cache(ip, record), run alone, leaves a store whose entry of ip is
\* {timestamp: now, info: record}, creating the store if there was none, and
\* whose entries of all other IPs, expired ones included, are the ones it
\* found; the store holds the IPs it held before and ip, one entry each.
C15_SaveChangesOnlyItsEntry ==
    Saved =>
        /\ HoldsEntry(CACHE_FILE, last.ip)
        /\ EntryTime(CACHE_FILE, last.ip) = last.at
        /\ EntryInfo(CACHE_FILE, last.ip) = last.info
        /\ Keys(CACHE_FILE) = Keys(last.pre) \cup {last.ip}
        /\ SameEntries(last.pre, CACHE_FILE, IPs \ {last.ip})

\* save_cache replaced the entry of its IP in a store that also held an
\* expired entry of another IP, which is still there
C15_Witness ==
    /\ Saved
    /\ HoldsEntry(last.pre, last.ip)
    /\ last.pre[2][last.ip] # CACHE_FILE[2][last.ip]
    /\ \E ip \in IPs \ {last.ip} :
          /\ HoldsEntry(last.pre, ip)
          /\ last.at - EntryTime(last.pre, ip) > CACHE_TTL
          /\ HoldsEntry(CACHE_FILE, ip)
          /\ CACHE_FILE[2][ip] = last.pre[2][ip]

----------------------------------------------------------------------------
(* C16: the web module's callers and failure results *)

\* the last call was display_ip_info or a POST to /lookup
Orchestrated == web.op \in {"display_ip_info", "lookup"}

\* get_ip_address was called and returned a failure result: the type was
\* invalid, or the request raised
ResolverFailed ==
    /\ ~WebTruthy(web.custom_ip)
    /\ web.ip_type \notin {"ipv4", "ipv6"} \/ Raised(web.echo) # "none"

\* get_ip_info was called and returned a failure result (a str, not a mapping)
InfoFailed == web.looked_up # <<>> /\ web.ip_info[1] = "str"

\* the failure result of get_ip_info was shown as the error it is
ShownAsError ==
    IF web.op = "display_ip_info"
    THEN web.out = Return(PyNone) /\ web.stdout[Len(web.stdout)] = web.ip_info
    ELSE web.out = Return(render_template(web.ip_info, PyNone, PyNone))

\* C16: display_ip_info and app.lookup call get_ip_info only when
\* get_ip_address returned an IP address, never when it returned a failure
\* result (invalid type, request failure, unexpected error), and a failure
\* result of get_ip_info is shown as an error, never rendered or dereferenced
\* as a GeoRecord.
C16_FailureResultsStopTheCaller ==
    Orchestrated =>
        /\ ResolverFailed => web.looked_up = <<>>
        /\ InfoFailed => ShownAsError

----------------------------------------------------------------------------
(* Version specification: get_ip_address of the CLI and of the web module *)

\* the CLI resolves an address
CliResolves == web = Idle /\ GetIpAddress

\* the web module resolves an address
WebResolves == res = Idle /\ WebGetIpAddress

NextVersions == CliResolves \/ WebResolves \/ InvocationEnds \/ WebEnds

SpecVersions == Init /\ [][NextVersions]_vars

----------------------------------------------------------------------------
(* C17: an IP version that is neither 'ipv4' nor 'ipv6' *)

\* C17: asked for an IP version that is neither 'ipv4' nor 'ipv6',
\* get_ip_address signals the invalid version without issuing any request: the
\* CLI echoes its message and raises typer.Exit(1), the web module returns its
\* message.
C17_InvalidVersionMakesNoRequest ==
    /\ (res.op = "get_ip_address" /\ res.ip_type \notin {"ipv4", "ipv6"}) =>
          /\ res.calls = <<>>
          /\ res.out = Exit(1)
          /\ res.stderr
               = <<Echo("Error: invalid IP type specified. Must be 'ipv4' or 'ipv6'.", <<>>)>>
    /\ (web.op = "get_ip_address" /\ web.ip_type \notin {"ipv4", "ipv6"}) =>
          /\ web.calls = <<>>
          /\ web.out = Return(Text(<<"Error", ":",
                                     " Invalid IP type specified.  Must be 'ipv4' or 'ipv6'.">>))

\* the web module was asked for an invalid version and made no request
C17_Witness ==
    /\ web.op = "get_ip_address"
    /\ web.ip_type \notin {"ipv4", "ipv6"}
    /\ web.reply = NotRequested
    /\ web.calls = <<>>

----------------------------------------------------------------------------
(* C18: the request of the web module's get_ip_info *)

\* C18: a successful ip_utils.get_ip_info(ip) issues exactly one request,
\* addressed to ipapi.co's per-IP JSON endpoint for that ip (the endpoint the
\* CLI queries and the module's own test asserts), and returns the provider's
\* mapping unchanged.
C18_WebLookupAsksIpapi ==
    (web.op = "get_ip_info" /\ web.out.value[1] = "dict") =>
        /\ web.calls = <<PrimaryUrl(web.ip)>>
        /\ web.out = Return(web.reply.body)

====
